---- MODULE Spec2Model ----
(***************************************************************************)
(* A model of the typed-record persistence engine of                       *)
(* math_genealogy_explorer (collection/db.py) over the record types of     *)
(* collection/schema.py: the metadata registry, the memoized existence     *)
(* check DB._contains, the write path DB.insert_or_update and the read     *)
(* path DB.get, run against a relational store that behaves as SQLite      *)
(* does for the statements the engine builds.                              *)
(***************************************************************************)
EXTENDS Integers, Sequences, FiniteSets, TLC

(***************************************************************************)
(* Bounds of the model.                                                    *)
(***************************************************************************)
\* caller-supplied primary keys are drawn from 1..MaxKey
MaxKey == 2
\* scalar column values (names, titles) are drawn from 1..MaxName
MaxName == 2
\* number of top-level calls made on the DB instance in one behaviour
MaxCalls == 2
\* number of threads of the process that call the one DB instance
MaxThreads == 2
\* the clock of the URL cache runs from 0 to MaxTime
MaxTime == 3

(***************************************************************************)
(* Python values.  None, ints and strings are tagged so that the           *)
(* isinstance tests of the code can be made on the value itself; a         *)
(* NamedTuple carries its type and its fields.                             *)
(***************************************************************************)
None == [k |-> "None"]
PyInt(n) == [k |-> "int", v |-> n]
PyStr(n) == [k |-> "str", v |-> n]
PyTuple(t, fs) == [k |-> "tuple", type |-> t, val |-> fs]
isinstance_tuple(v) == v.k = "tuple"

NoException == "none"

(***************************************************************************)
(* schema.py: the record types, their fields in declaration order and the  *)
(* declared type of each field.                                            *)
(***************************************************************************)
Types ==
    {"Country", "University", "MathematicsSubjectClassification",
     "Dissertation", "Mathematician", "AdvisorRelationship"}

_fields ==
    [Country |-> <<"country_id", "country_name">>,
     University |-> <<"university_id", "university_name", "country">>,
     MathematicsSubjectClassification |-> <<"subject_code", "subject_name">>,
     Dissertation |-> <<"dissertation_id", "dissertation_title",
                        "dissertation_year", "subject", "university">>,
     Mathematician |-> <<"mathematician_id", "mathematician_name",
                         "birth_date", "death_date", "dissertation">>,
     AdvisorRelationship |-> <<"advisor", "advisee", "university">>]

_field_types ==
    [Country |-> [country_id |-> "int", country_name |-> "str"],
     University |-> [university_id |-> "int", university_name |-> "str",
                     country |-> "Country"],
     MathematicsSubjectClassification |->
                    [subject_code |-> "int", subject_name |-> "str"],
     Dissertation |-> [dissertation_id |-> "int", dissertation_title |-> "str",
                       dissertation_year |-> "int",
                       subject |-> "MathematicsSubjectClassification",
                       university |-> "University"],
     Mathematician |-> [mathematician_id |-> "int", mathematician_name |-> "str",
                        birth_date |-> "date", death_date |-> "date",
                        dissertation |-> "Dissertation"],
     AdvisorRelationship |-> [advisor |-> "Mathematician",
                              advisee |-> "Mathematician",
                              university |-> "University"]]

Range(s) == {s[i] : i \in DOMAIN s}

(***************************************************************************)
(* The registries as the decorators of schema.py leave them.               *)
(***************************************************************************)
InsertIfNewPKElseUpdate == 1
InsertIfNewAltPKElseUpdate == 2
InsertIfNewPKElseIgnore == 4
InsertIfNewAltPKElseIgnore == 8
InsertIfNoPK == 16

INSERT_MODES ==
    [Country |-> {InsertIfNewAltPKElseIgnore},
     University |-> {InsertIfNewAltPKElseIgnore},
     MathematicsSubjectClassification |-> {InsertIfNewPKElseIgnore},
     Dissertation |-> {InsertIfNoPK},
     Mathematician |-> {InsertIfNewPKElseIgnore},
     AdvisorRelationship |-> {InsertIfNewAltPKElseIgnore}]

PK_NAMES == [MathematicsSubjectClassification |-> "subject_code"]

\* register_fk_names is applied to no type of schema.py
FK_NAMES == [t \in {} |-> {}]

ALT_PK_NAMES ==
    [Country |-> {"country_name"},
     University |-> {"university_name", "country_id"},
     MathematicsSubjectClassification |-> {"subject_name"},
     AdvisorRelationship |-> {"advisor_id", "advisee_id"}]

(***************************************************************************)
(* _table_name: the capitalised words of the type name, lower-cased and    *)
(* joined by underscores.                                                  *)
(***************************************************************************)
_table_name ==
    [Country |-> "country",
     University |-> "university",
     MathematicsSubjectClassification |-> "mathematics_subject_classification",
     Dissertation |-> "dissertation",
     Mathematician |-> "mathematician",
     AdvisorRelationship |-> "advisor_relationship"]

\* the name Python's None takes as a key name (and prints as in a statement)
NoneName == "None"

\* the body of _primary_key_name
compute_primary_key_name(type_) ==
    IF type_ \in DOMAIN PK_NAMES THEN PK_NAMES[type_]
    ELSE LET pkname == _table_name[type_] \o "_id"
         IN  IF pkname \notin Range(_fields[type_]) THEN NoneName ELSE pkname

\* _primary_key_name under lru_cache(None): computed once per type
primary_key_names == [type_ \in Types |-> compute_primary_key_name(type_)]

_primary_key_name(type_) == primary_key_names[type_]

\* c + "_id", for every field name c
id_column == [c \in UNION {Range(_fields[t]) : t \in Types} |-> c \o "_id"]

(***************************************************************************)
(* The relational store behind self.conn.  A table maps the rowid of each  *)
(* of its rows to the row's other columns; the primary-key column of a     *)
(* table is its rowid (INTEGER PRIMARY KEY), which the store assigns when  *)
(* a statement omits it.  The columns of a table are those the engine's    *)
(* statements name for the table's record type: the primary key, the       *)
(* scalar fields and <field>_id for each nested record.                    *)
(***************************************************************************)
Tables == {_table_name[t] : t \in Types}

TypeOfTable(tablename) == CHOOSE t \in Types : _table_name[t] = tablename

ColumnOfField(type_, c) ==
    IF _field_types[type_][c] \in Types THEN id_column[c] ELSE c

TableColumns ==
    [tablename \in Tables |->
        LET type_ == TypeOfTable(tablename)
        IN  {ColumnOfField(type_, c) : c \in Range(_fields[type_])}]

TablePrimaryKey ==
    [tablename \in Tables |-> _primary_key_name(TypeOfTable(tablename))]

EmptyStore == [t \in Tables |-> <<>>]

SetMax(S) == CHOOSE x \in S : \A y \in S : y <= x

\* the rowid SQLite gives a row inserted without one
NextRowId(table) ==
    IF DOMAIN table = {} THEN 1 ELSE SetMax(DOMAIN table) + 1

IndexOf(seq, x) == CHOOSE i \in DOMAIN seq : seq[i] = x

\* conn.execute("INSERT INTO <tablename>(<columns>) VALUES (?, ...)", params)
sql_insert(st, tablename, columns, params) ==
    LET cols == Range(columns)
        pkcol == TablePrimaryKey[tablename]
        explicit == pkcol \in cols /\ params[IndexOf(columns, pkcol)] # None
        rowid == IF explicit THEN params[IndexOf(columns, pkcol)].v
                 ELSE NextRowId(st[tablename])
        row == [c \in TableColumns[tablename] \ {pkcol} |->
                   IF c \in cols THEN params[IndexOf(columns, c)] ELSE None]
    IN  IF columns = <<>>
        THEN [exc |-> "OperationalError", store |-> st, lastrowid |-> 0]
        ELSE IF ~(cols \subseteq TableColumns[tablename])
        THEN [exc |-> "OperationalError", store |-> st, lastrowid |-> 0]
        ELSE IF rowid \in DOMAIN st[tablename]
        THEN [exc |-> "IntegrityError", store |-> st, lastrowid |-> 0]
        ELSE [exc |-> NoException,
              store |-> [st EXCEPT ![tablename] = (rowid :> row) @@ @],
              lastrowid |-> rowid]

\* conn.execute("UPDATE <tablename> SET <columns> = ? WHERE <pkname> = ?", params)
sql_update(st, tablename, columns, params, pkname) ==
    LET cols == Range(columns)
        pkvalue == params[Len(params)]
        hit == IF pkvalue.k = "int" THEN {pkvalue.v} \cap DOMAIN st[tablename]
               ELSE {}
    IN  IF columns = <<>>
        THEN [exc |-> "OperationalError", store |-> st]
        ELSE IF ~((cols \cup {pkname}) \subseteq TableColumns[tablename])
        THEN [exc |-> "OperationalError", store |-> st]
        ELSE [exc |-> NoException,
              store |-> [st EXCEPT ![tablename] =
                  [r \in DOMAIN @ |->
                      IF r \in hit
                      THEN [c \in DOMAIN @[r] |->
                               IF c \in cols THEN params[IndexOf(columns, c)]
                               ELSE @[r][c]]
                      ELSE @[r]]]]

\* conn.execute("SELECT <pkname> FROM <tablename> WHERE <pkname> = ?").fetchone()
\* is not None
sql_exists(st, tablename, pkname, pkvalue) ==
    /\ pkname \in TableColumns[tablename]
    /\ pkvalue.k = "int"
    /\ pkvalue.v \in DOMAIN st[tablename]

(***************************************************************************)
(* A frame is the state a call works on and what it hands back: the store, *)
(* the memo of DB._contains, the statements issued so far, the exception   *)
(* raised (if any) and the value returned.                                 *)
(***************************************************************************)
Raise(db, e) == [db EXCEPT !.exc = e, !.ret = None]
Return(db, v) == [db EXCEPT !.exc = NoException, !.ret = v]

(***************************************************************************)
(* DB._contains under lru_cache: the first call for an argument triple     *)
(* runs the query and memoizes its answer, True or False; later calls      *)
(* answer from the memo.                                                   *)
(***************************************************************************)
\* a variant of DB._contains without lru_cache: every call runs the query
_contains_uncached(db, tablename, pkname, pkvalue) ==
    LET key == <<tablename, pkname, pkvalue>>
        found == sql_exists(db.store, tablename, pkname, pkvalue)
    IN  Return([db EXCEPT
            !.cache = (key :> found) @@ @,
            !.stmts = Append(@, [op |-> "SELECT", table |-> tablename,
                                 ok |-> TRUE])],
               found)

_contains(db, tablename, pkname, pkvalue) ==
    LET key == <<tablename, pkname, pkvalue>>
    IN  IF key \in DOMAIN db.cache
        THEN Return(db, db.cache[key])
        ELSE LET found == sql_exists(db.store, tablename, pkname, pkvalue)
             IN  Return([db EXCEPT
                     !.cache = (key :> found) @@ @,
                     !.stmts = Append(@, [op |-> "SELECT", table |-> tablename,
                                          ok |-> TRUE])],
                        found)
(***************************************************************************)
(* DB.insert_or_update.  `update` is a local the code binds on two of its  *)
(* three paths only; reading it unbound raises UnboundLocalError.          *)
(***************************************************************************)
\* line 200: insert_columns.extend(c + "_id" for c in insert_dependency_columns)
extend_columns(insert_columns, insert_dependency_columns) ==
    insert_columns \o [i \in DOMAIN insert_dependency_columns |->
                          id_column[insert_dependency_columns[i]]]

\* line 201: insert_values.extend(insert_dependency_pks)
extend_values(insert_values, insert_dependency_pks) ==
    insert_values \o insert_dependency_pks

\* a variant of line 220 that hands back the caller's key on both paths
returned_key_of_caller(update, pkvalue, lastrowid) == pkvalue

\* line 220: return pkvalue if update else cur.lastrowid
returned_key(update, pkvalue, lastrowid) ==
    IF update THEN pkvalue ELSE PyInt(lastrowid)

\* a call that returns is noted with its argument and the key it returned
Returned(db, value, key) ==
    [db EXCEPT !.exc = NoException, !.ret = key,
               !.calls = Append(@, [value |-> value, ret |-> key])]

\* a variant of line 219 that undoes what the call wrote before the statement
\* the store rejected
rolled_back(db, e) == [e EXCEPT !.store = db.store]

\* line 219: an exception of conn.execute leaves insert_or_update as it was
\* raised; the code has no handler, no retry and no rollback
execute_raised(db, e) == e

\* a variant of line 163 that takes every instance for a writable one
readonly_ignored(ro) == FALSE

\* line 163: if self.readonly
self_readonly(ro) == ro

RECURSIVE insert_or_update(_, _, _, _)
RECURSIVE insert_dependencies(_, _, _, _, _)

\* lines 196-198: the nested records, one after the other, each through a
\* recursive call; an exception of a call ends the loop and the caller
insert_dependencies(ro, db, subvalues, check, pks) ==
    IF subvalues = <<>> THEN Return(db, pks)
    ELSE LET r == insert_or_update(ro, db, Head(subvalues), check)
         IN  IF r.exc # NoException THEN r
             ELSE insert_dependencies(ro, r, Tail(subvalues), check,
                                      Append(pks, r.ret))

insert_or_update(ro, db, value, check_if_pk_not_null) ==
    IF self_readonly(ro) THEN Raise(db, "ValueError")
    ELSE
    LET type_ == value.type
        tablename == _table_name[type_]
        pkname == _primary_key_name(type_)
        fields == _fields[type_]
        \* lines 174-183
        insert_dependency_columns ==
            SelectSeq(fields, LAMBDA c : c # pkname /\ isinstance_tuple(value.val[c]))
        scalar_columns ==
            SelectSeq(fields, LAMBDA c : c # pkname /\ ~isinstance_tuple(value.val[c]))
        subvalues ==
            [i \in DOMAIN insert_dependency_columns |->
                value.val[insert_dependency_columns[i]]]
    IN  \* line 185: getattr(value, None)
        IF pkname = NoneName THEN Raise(db, "TypeError")
        ELSE
        LET pkvalue == value.val[pkname]
            \* lines 187-194
            checked == pkvalue # None /\ check_if_pk_not_null
            c == IF checked THEN _contains(db, tablename, pkname, pkvalue)
                 ELSE db
            update_bound == checked \/ pkvalue # None
            update == IF checked THEN c.ret ELSE FALSE
            with_pk == ~checked /\ pkvalue # None
            columns0 == IF with_pk THEN Append(scalar_columns, pkname)
                        ELSE scalar_columns
            values0 == [i \in DOMAIN columns0 |-> value.val[columns0[i]]]
            \* lines 196-198
            d == insert_dependencies(ro, c, subvalues, check_if_pk_not_null, <<>>)
        IN  IF d.exc # NoException THEN d
            ELSE
            LET insert_columns == extend_columns(columns0, insert_dependency_columns)
                insert_values == extend_values(values0, d.ret)
            IN  \* line 203
                IF ~update_bound THEN Raise(d, "UnboundLocalError")
                ELSE IF update
                THEN LET r == sql_update(d.store, tablename, insert_columns,
                                         Append(insert_values, pkvalue), pkname)
                         stmt == [op |-> "UPDATE", table |-> tablename,
                                  columns |-> insert_columns,
                                  params |-> insert_values, key |-> pkvalue,
                                  ok |-> r.exc = NoException]
                         e == [d EXCEPT !.store = r.store,
                                        !.stmts = Append(@, stmt)]
                     IN  IF r.exc # NoException
                         THEN Raise(execute_raised(db, e), r.exc)
                         ELSE Returned(e, value, returned_key(TRUE, pkvalue, 0))
                ELSE LET r == sql_insert(d.store, tablename, insert_columns,
                                         insert_values)
                         stmt == [op |-> "INSERT", table |-> tablename,
                                  columns |-> insert_columns,
                                  params |-> insert_values,
                                  key |-> PyInt(r.lastrowid),
                                  ok |-> r.exc = NoException]
                         e == [d EXCEPT !.store = r.store,
                                        !.stmts = Append(@, stmt)]
                     IN  IF r.exc # NoException
                         THEN Raise(execute_raised(db, e), r.exc)
                         ELSE Returned(e, value,
                                       returned_key(FALSE, pkvalue, r.lastrowid))
(***************************************************************************)
(* The read path.                                                          *)
(***************************************************************************)
\* conn.execute("SELECT (<columns>) FROM <tablename> WHERE <pkname> = ?"):
\* every name must be a column of the table, and a parenthesised list of two
\* or more columns is a row value, which SQLite refuses as a result column
sql_select(st, tablename, columns, pkname, pkvalue) ==
    LET table == st[tablename]
        pkcol == TablePrimaryKey[tablename]
        found == pkvalue.k = "int" /\ pkvalue.v \in DOMAIN table
        cell(c) == IF c = pkcol THEN pkvalue ELSE table[pkvalue.v][c]
    IN  IF ~((Range(columns) \cup {pkname}) \subseteq TableColumns[tablename])
        THEN [exc |-> "OperationalError", found |-> FALSE, row |-> <<>>]
        ELSE IF Len(columns) >= 2
        THEN [exc |-> "OperationalError", found |-> FALSE, row |-> <<>>]
        ELSE [exc |-> NoException, found |-> found,
              row |-> IF found THEN [i \in DOMAIN columns |-> cell(columns[i])]
                      ELSE <<>>]

\* _foreign_key_names: the registered names, or else a read of _field_types
\* on the builtin `type`, which has no such attribute
_foreign_key_names(type_) ==
    IF type_ \in DOMAIN FK_NAMES
    THEN [exc |-> NoException, ret |-> FK_NAMES[type_]]
    ELSE [exc |-> "AttributeError", ret |-> {}]

SQL_CONVERTERS == {"datetime", "date"}

\* convert_sql_result_value: the value as it is when it has the declared type
\* or the type has no converter, else fromisoformat of it (of a string)
convert_sql_result_value(value, type_) ==
    IF value.k = type_ THEN [exc |-> NoException, ret |-> value]
    ELSE IF type_ \notin SQL_CONVERTERS THEN [exc |-> NoException, ret |-> value]
    ELSE IF value.k = "str"
    THEN [exc |-> NoException, ret |-> [k |-> type_, v |-> value.v]]
    ELSE [exc |-> "TypeError", ret |-> None]

\* n[:-3] if n.endswith("_id") else n
FieldOfColumn(type_, n) ==
    IF \E f \in Range(_fields[type_]) : f \o "_id" = n
    THEN CHOOSE f \in Range(_fields[type_]) : f \o "_id" = n
    ELSE n

RECURSIVE get(_, _, _)
RECURSIVE get_columns(_, _, _, _, _, _)

\* lines 244-253: one keyword argument per selected column, then type_(**kwargs)
get_columns(db, type_, description, row, fknames, kwargs) ==
    IF description = <<>>
    THEN IF DOMAIN kwargs = Range(_fields[type_])
         THEN Return(db, PyTuple(type_, kwargs))
         ELSE Raise(db, "TypeError")
    ELSE LET n == Head(description)
             val == Head(row)
         IN  IF n \in fknames
             THEN LET fieldname == FieldOfColumn(type_, n)
                  IN  IF fieldname \notin DOMAIN _field_types[type_]
                      THEN Raise(db, "KeyError")
                      ELSE LET r == get(db, _field_types[type_][fieldname], val)
                           IN  IF r.exc # NoException THEN r
                               ELSE get_columns(r, type_, Tail(description),
                                                Tail(row), fknames,
                                                (n :> r.ret) @@ kwargs)
             ELSE IF n \notin DOMAIN _field_types[type_]
                  THEN Raise(db, "KeyError")
                  ELSE LET cv == convert_sql_result_value(val, _field_types[type_][n])
                       IN  IF cv.exc # NoException THEN Raise(db, cv.exc)
                           ELSE get_columns(db, type_, Tail(description),
                                            Tail(row), fknames,
                                            (n :> cv.ret) @@ kwargs)

get(db, type_, pkvalue) ==
    IF type_ \notin Types THEN Raise(db, "AttributeError")
    ELSE
    LET tablename == _table_name[type_]
        pkname == _primary_key_name(type_)
        r == sql_select(db.store, tablename, _fields[type_], pkname, pkvalue)
        e == [db EXCEPT !.stmts = Append(@, [op |-> "SELECT", table |-> tablename,
                                             ok |-> r.exc = NoException])]
    IN  IF r.exc # NoException THEN Raise(e, r.exc)
        ELSE IF ~r.found THEN Return(e, None)
        ELSE LET fk == _foreign_key_names(type_)
             IN  IF fk.exc # NoException THEN Raise(e, fk.exc)
                 ELSE get_columns(e, type_, _fields[type_], r.row, fk.ret, <<>>)

(***************************************************************************)
(* The records callers pass.  Countries take every key and name of the     *)
(* bounds; the types that nest records take nested records of one name,    *)
(* whose keys vary (None, as parse_mathematicican builds them, or set).    *)
(***************************************************************************)
Keys == 1 .. MaxKey
PKValues == {None} \cup {PyInt(k) : k \in Keys}
Names == {PyStr(n) : n \in 1 .. MaxName}

Country(id, name) ==
    PyTuple("Country", [country_id |-> id, country_name |-> name])
University(id, name, country) ==
    PyTuple("University",
            [university_id |-> id, university_name |-> name, country |-> country])
MathematicsSubjectClassification(code, name) ==
    PyTuple("MathematicsSubjectClassification",
            [subject_code |-> code, subject_name |-> name])
Dissertation(id, title, year, subject, university) ==
    PyTuple("Dissertation",
            [dissertation_id |-> id, dissertation_title |-> title,
             dissertation_year |-> year, subject |-> subject,
             university |-> university])
Mathematician(id, name, dissertation) ==
    PyTuple("Mathematician",
            [mathematician_id |-> id, mathematician_name |-> name,
             birth_date |-> None, death_date |-> None,
             dissertation |-> dissertation])
AdvisorRelationship(advisor, advisee, university) ==
    PyTuple("AdvisorRelationship",
            [advisor |-> advisor, advisee |-> advisee, university |-> university])

NestedKeys == {None, PyInt(1)}
Countries == {Country(k, n) : k \in PKValues, n \in Names}
NestedCountryKeys == NestedKeys \cup {PyInt(2)}
Universities ==
    {University(k, PyStr(1), Country(c, PyStr(1))) :
        k \in PKValues, c \in NestedCountryKeys}
Subjects == {MathematicsSubjectClassification(k, n) : k \in PKValues, n \in Names}

NestedUniversity(k) == University(k, PyStr(1), Country(k, PyStr(1)))
NestedDissertation(k) ==
    Dissertation(k, PyStr(1), PyInt(1),
                 MathematicsSubjectClassification(k, PyStr(1)), NestedUniversity(k))
Dissertations ==
    {Dissertation(k, PyStr(1), PyInt(1),
                  MathematicsSubjectClassification(n, PyStr(1)), NestedUniversity(n)) :
        k \in PKValues, n \in NestedKeys}
Mathematicians ==
    {Mathematician(k, PyStr(1), NestedDissertation(d)) :
        k \in PKValues, d \in NestedKeys}
AdvisorRelationships ==
    {AdvisorRelationship(Mathematician(k, PyStr(1), NestedDissertation(k)),
                         Mathematician(k, PyStr(1), NestedDissertation(k)),
                         NestedUniversity(k)) : k \in NestedKeys}

Records ==
    Countries \cup Universities \cup Subjects \cup Dissertations
        \cup Mathematicians \cup AdvisorRelationships

(***************************************************************************)
(* The state: one DB instance, its connection's store, the memo of its     *)
(* _contains, and the latest call made on it with its outcome.             *)
(***************************************************************************)
VARIABLES readonly, store, cache, last, ncalls

\* the connection's thread check and the threads that call the instance
VARIABLES conn, threads

\* the registries of db.py (lines 13-16) and the directory of the URL cache
VARIABLES registry, urlcache

vars == <<readonly, store, cache, last, ncalls, conn, threads, registry, urlcache>>

\* the registries once schema.py is imported
SchemaRegistry ==
    [PK_NAMES |-> PK_NAMES, FK_NAMES |-> FK_NAMES, ALT_PK_NAMES |-> ALT_PK_NAMES,
     foreign_key_names_cache |-> <<>>]

\* a cache directory without entries, at time 0
EmptyURLCache == [files |-> <<>>, dirs |-> <<>>, now |-> 0]

PyBool(b) == [k |-> "bool", v |-> b]

Frame == [store |-> store, cache |-> cache, stmts |-> <<>>, calls |-> <<>>,
          exc |-> NoException, ret |-> None]

Outcome(op, arg, check, r, ret) ==
    [op |-> op, arg |-> arg, check |-> check, exc |-> r.exc, ret |-> ret,
     stmts |-> r.stmts, calls |-> r.calls]

Init ==
    /\ readonly \in BOOLEAN
    /\ store = EmptyStore
    /\ cache = <<>>
    /\ last = [op |-> "init", arg |-> None, check |-> TRUE, exc |-> NoException,
               ret |-> None, stmts |-> <<>>, calls |-> <<>>]
    /\ ncalls = 0
    /\ conn = [check_same_thread |-> TRUE]
    /\ threads = <<>>
    /\ registry = SchemaRegistry
    /\ urlcache = EmptyURLCache

\* db.insert_or_update(value, check_if_pk_not_null)
Persist(value, check) ==
    /\ ncalls < MaxCalls
    /\ LET r == insert_or_update(readonly, Frame, value, check)
       IN  /\ store' = r.store
           /\ cache' = r.cache
           /\ last' = Outcome("persist", value, check, r, r.ret)
    /\ ncalls' = ncalls + 1
    /\ UNCHANGED <<readonly, conn, threads, registry, urlcache>>

LookupKeys == Keys \cup UNION {DOMAIN store[t] : t \in Tables}

\* db.get(type_, pkvalue)
Get(type_, pkvalue) ==
    /\ ncalls < MaxCalls
    /\ LET r == get(Frame, type_, pkvalue)
       IN  /\ store' = r.store
           /\ cache' = r.cache
           /\ last' = Outcome("get", [type |-> type_, key |-> pkvalue], TRUE, r, r.ret)
    /\ ncalls' = ncalls + 1
    /\ UNCHANGED <<readonly, conn, threads, registry, urlcache>>

\* db._contains(tablename, pkname, pkvalue)
Contains(type_, pkvalue) ==
    /\ ncalls < MaxCalls
    /\ _primary_key_name(type_) # NoneName
    /\ LET r == _contains(Frame, _table_name[type_], _primary_key_name(type_), pkvalue)
       IN  /\ store' = r.store
           /\ cache' = r.cache
           /\ last' = Outcome("contains", [type |-> type_, key |-> pkvalue], TRUE,
                              r, PyBool(r.ret))
    /\ ncalls' = ncalls + 1
    /\ UNCHANGED <<readonly, conn, threads, registry, urlcache>>

PersistCall == \E value \in Records, check \in BOOLEAN : Persist(value, check)
GetCall == \E type_ \in Types, k \in LookupKeys : Get(type_, PyInt(k))
ContainsCall == \E type_ \in Types, k \in LookupKeys : Contains(type_, PyInt(k))

Next == PersistCall \/ GetCall \/ ContainsCall

Spec == Init /\ [][Next]_vars
(***************************************************************************)
(* Vocabulary of the properties.                                           *)
(***************************************************************************)
PkName(value) == _primary_key_name(value.type)
PkValue(value) == value.val[PkName(value)]
TableOf(value) == _table_name[value.type]
NestedFields(value) ==
    {f \in Range(_fields[value.type]) : isinstance_tuple(value.val[f])}
ScalarFields(value) ==
    {f \in Range(_fields[value.type]) :
        f # PkName(value) /\ ~isinstance_tuple(value.val[f])}
RowCount(st, tablename) == Cardinality(DOMAIN st[tablename])
\* the step is a call of insert_or_update on a writable instance
PersistStep == ncalls' = ncalls + 1 /\ last'.op = "persist" /\ ~readonly
\* the step is a call of insert_or_update that follows one with the same
\* record, both with the default check_if_pk_not_null
SamePersistAgain ==
    /\ PersistStep
    /\ last.op = "persist"
    /\ last'.arg = last.arg
    /\ last.check /\ last'.check

(***************************************************************************)
(* C1: for every record whose primary-key field holds None, persist        *)
(* completes with an INSERT that omits the primary-key column, adds        *)
(* exactly one row to the record's table and returns the key the store     *)
(* assigned to that row.                                                   *)
(***************************************************************************)
C1_NoneKeyInserts ==
    [][(/\ PersistStep
        /\ PkName(last'.arg) # NoneName
        /\ PkValue(last'.arg) = None)
       => (/\ last'.exc = NoException
           /\ Len(last'.stmts) > 0
           /\ LET stmt == last'.stmts[Len(last'.stmts)]
              IN  /\ stmt.op = "INSERT"
                  /\ stmt.table = TableOf(last'.arg)
                  /\ PkName(last'.arg) \notin Range(stmt.columns)
                  /\ last'.ret = stmt.key
           /\ RowCount(store', TableOf(last'.arg))
                = RowCount(store, TableOf(last'.arg)) + 1
           /\ last'.ret.v \in DOMAIN store'[TableOf(last'.arg)]
           /\ last'.ret.v \notin DOMAIN store[TableOf(last'.arg)])]_vars

(***************************************************************************)
(* C2: idempotence.  Persisting a record with a set primary key a second   *)
(* time returns the key the first call returned and adds no row to the     *)
(* record's table, so that one row stands for the record.                  *)
(***************************************************************************)
C2_Idempotent ==
    [][(/\ SamePersistAgain
        /\ PkName(last'.arg) # NoneName
        /\ PkValue(last'.arg) # None
        /\ last.exc = NoException)
       => (/\ last'.exc = NoException
           /\ last'.ret = last.ret
           /\ RowCount(store', TableOf(last'.arg))
                = RowCount(store, TableOf(last'.arg)))]_vars

(***************************************************************************)
(* C3: when persist is called with a record whose primary key is set and   *)
(* no row of the table has that key, the row the call inserts has the      *)
(* caller's value as its primary key, and the call returns that value.     *)
(***************************************************************************)
C3_InsertKeepsCallerKey ==
    [][(/\ PersistStep
        /\ PkName(last'.arg) # NoneName
        /\ PkValue(last'.arg) # None
        /\ PkValue(last'.arg).v \notin DOMAIN store[TableOf(last'.arg)]
        /\ last'.exc = NoException)
       => (/\ last'.ret = PkValue(last'.arg)
           /\ PkValue(last'.arg).v \in DOMAIN store'[TableOf(last'.arg)])]_vars

(***************************************************************************)
(* C4: when persist is called with a record whose primary key is set and   *)
(* a row with that key exists, the call adds no row, sets every non-key    *)
(* column of that row (scalar columns and resolved foreign keys) to the    *)
(* record's values, leaves the other rows of the table as they were and    *)
(* returns the key.                                                        *)
(***************************************************************************)
C4_ExistingKeyUpdates ==
    [][(/\ PersistStep
        /\ last'.check
        /\ PkName(last'.arg) # NoneName
        /\ PkValue(last'.arg) # None
        /\ PkValue(last'.arg).v \in DOMAIN store[TableOf(last'.arg)]
        /\ last'.exc = NoException)
       => LET value == last'.arg
              t == TableOf(value)
              key == PkValue(value).v
          IN  /\ DOMAIN store'[t] = DOMAIN store[t]
              /\ \A f \in ScalarFields(value) : store'[t][key][f] = value.val[f]
              /\ \A f \in NestedFields(value) :
                    \E i \in DOMAIN last'.calls :
                        /\ last'.calls[i].value = value.val[f]
                        /\ store'[t][key][f \o "_id"] = last'.calls[i].ret
              /\ \A r \in DOMAIN store[t] \ {key} : store'[t][r] = store[t][r]
              /\ last'.ret = PkValue(value)]_vars

(***************************************************************************)
(* C5: dependency postcondition.  When persist(R) returns, every record N  *)
(* nested in R has a row, R has a row, and R's row holds in <field>_id the *)
(* key the recursive persist of N returned.                                *)
(***************************************************************************)
C5_DependencyPostcondition ==
    (last.op = "persist" /\ last.exc = NoException)
    => LET R == last.arg
       IN  /\ last.ret.k = "int"
           /\ last.ret.v \in DOMAIN store[TableOf(R)]
           /\ \A f \in NestedFields(R) :
                \E i \in DOMAIN last.calls :
                    LET N == last.calls[i].value
                        key == last.calls[i].ret
                    IN  /\ N = R.val[f]
                        /\ key.k = "int"
                        /\ key.v \in DOMAIN store[TableOf(N)]
                        /\ store[TableOf(R)][last.ret.v][f \o "_id"] = key

\* persist(R) has returned for an R whose nested record had no row before the
\* call: the call inserted it, and R's row refers to it
C5_Witness ==
    /\ last.op = "persist" /\ last.exc = NoException /\ last.check
    /\ \E f \in NestedFields(last.arg) :
          \E i \in DOMAIN last.stmts :
              /\ last.stmts[i].op = "INSERT"
              /\ last.stmts[i].table = TableOf(last.arg.val[f])
              /\ last.stmts[i].ok
              /\ store[TableOf(last.arg)][last.ret.v][f \o "_id"] = last.stmts[i].key
(***************************************************************************)
(* C6: round trip.  For a record R of a type with a primary key and no     *)
(* else-ignore policy, get(type(R), persist(R)) returns a record equal to  *)
(* R: its primary key is the returned key, its scalar fields are R's and   *)
(* its reference fields are nested records of the declared types.          *)
(***************************************************************************)
ElseIgnore == {InsertIfNewPKElseIgnore, InsertIfNewAltPKElseIgnore}

C6_RoundTrip ==
    [][(/\ ncalls' = ncalls + 1
        /\ last.op = "persist" /\ last.exc = NoException
        /\ PkName(last.arg) # NoneName
        /\ INSERT_MODES[last.arg.type] \cap ElseIgnore = {}
        /\ last'.op = "get"
        /\ last'.arg.type = last.arg.type
        /\ last'.arg.key = last.ret)
       => (/\ last'.exc = NoException
           /\ last'.ret.k = "tuple"
           /\ last'.ret.type = last.arg.type
           /\ last'.ret.val[PkName(last.arg)] = last.ret
           /\ \A f \in ScalarFields(last.arg) :
                 last'.ret.val[f] = last.arg.val[f]
           /\ \A f \in NestedFields(last.arg) :
                 /\ last'.ret.val[f].k = "tuple"
                 /\ last'.ret.val[f].type = last.arg.val[f].type)]_vars

(***************************************************************************)
(* C7: for a type registered insert-if-new-primary-key-else-ignore,        *)
(* persisting a record whose primary key already has a row writes nothing: *)
(* the table is as it was and the call returns the existing key.           *)
(***************************************************************************)
C7_ElseIgnoreKeepsRow ==
    [][(/\ PersistStep
        /\ last'.check
        /\ INSERT_MODES[last'.arg.type] = {InsertIfNewPKElseIgnore}
        /\ PkValue(last'.arg) # None
        /\ PkValue(last'.arg).v \in DOMAIN store[TableOf(last'.arg)])
       => (/\ last'.exc = NoException
           /\ last'.ret = PkValue(last'.arg)
           /\ store'[TableOf(last'.arg)] = store[TableOf(last'.arg)])]_vars

(***************************************************************************)
(* C8: for a type registered with an alternate key and the policy          *)
(* insert-if-new-alternate-key-else-ignore, persisting two records with    *)
(* primary key None and equal alternate-key values leaves one row with     *)
(* that alternate key, and the second call returns the first call's key.   *)
(***************************************************************************)
AltKey(value) == [c \in ALT_PK_NAMES[value.type] |-> value.val[c]]

RowsWithAltKey(st, value) ==
    {r \in DOMAIN st[TableOf(value)] :
        \A c \in ALT_PK_NAMES[value.type] :
            st[TableOf(value)][r][c] = value.val[c]}

C8_AlternateKeyDeduplicates ==
    [][(/\ PersistStep
        /\ last.op = "persist"
        /\ last.check /\ last'.check
        /\ last'.arg.type = last.arg.type
        /\ INSERT_MODES[last'.arg.type] = {InsertIfNewAltPKElseIgnore}
        /\ NestedFields(last'.arg) = {}
        /\ PkName(last'.arg) # NoneName
        /\ PkValue(last.arg) = None /\ PkValue(last'.arg) = None
        /\ AltKey(last'.arg) = AltKey(last.arg))
       => (/\ last.exc = NoException /\ last'.exc = NoException
           /\ last'.ret = last.ret
           /\ Cardinality(RowsWithAltKey(store', last'.arg)) = 1)]_vars

(***************************************************************************)
(* C9: for a record type with no primary-key field, persist always         *)
(* inserts: each call completes and adds a row of its own to the table, so *)
(* two identical records make two rows.                                    *)
(***************************************************************************)
C9_NoKeyAlwaysInserts ==
    [][(/\ PersistStep
        /\ PkName(last'.arg) = NoneName)
       => (/\ last'.exc = NoException
           /\ RowCount(store', TableOf(last'.arg))
                = RowCount(store, TableOf(last'.arg)) + 1)]_vars

(***************************************************************************)
(* C10: once a persist call has inserted a row with primary key K into     *)
(* table T, the existence check answers true for (T, pk column, K), also   *)
(* when it had been evaluated, and memoized, before the insert.            *)
(***************************************************************************)
\* what DB._contains answers in the current state
Answer(tablename, pkname, pkvalue) ==
    IF <<tablename, pkname, pkvalue>> \in DOMAIN cache
    THEN cache[<<tablename, pkname, pkvalue>>]
    ELSE sql_exists(store, tablename, pkname, pkvalue)

C10_InsertedKeyIsSeen ==
    \A type_ \in Types :
        _primary_key_name(type_) # NoneName =>
            \A K \in DOMAIN store[_table_name[type_]] :
                Answer(_table_name[type_], _primary_key_name(type_), PyInt(K))

(***************************************************************************)
(* The instance on a database that holds rows already and that another     *)
(* connection changes: DB is given the path of a database file or an open  *)
(* connection, and rows can be deleted behind its back.  The records       *)
(* persisted here are the flat ones, which reach DB._contains as the       *)
(* nested ones do.                                                         *)
(***************************************************************************)
SeededStore ==
    [EmptyStore EXCEPT
        !["country"] = (1 :> [country_name |-> PyStr(1)]),
        !["mathematics_subject_classification"] =
            (1 :> [subject_name |-> PyStr(1)])]

InitOutOfBand ==
    /\ readonly = FALSE
    /\ store \in {EmptyStore, SeededStore}
    /\ cache = <<>>
    /\ last = [op |-> "init", arg |-> None, check |-> TRUE, exc |-> NoException,
               ret |-> None, stmts |-> <<>>, calls |-> <<>>]
    /\ ncalls = 0
    /\ conn = [check_same_thread |-> TRUE]
    /\ threads = <<>>
    /\ registry = SchemaRegistry
    /\ urlcache = EmptyURLCache

\* DELETE FROM <tablename> WHERE rowid = <rowid>, through another connection
\* (a removal after the instance's last call goes unobserved and is left out)
RemoveOutOfBand(tablename, rowid) ==
    /\ ncalls < MaxCalls
    /\ rowid \in DOMAIN store[tablename]
    /\ store' = [store EXCEPT ![tablename] =
                    [r \in DOMAIN @ \ {rowid} |-> @[r]]]
    /\ last' = [op |-> "remove", arg |-> [table |-> tablename, key |-> PyInt(rowid)],
                check |-> TRUE, exc |-> NoException, ret |-> None,
                stmts |-> <<>>, calls |-> <<>>]
    /\ UNCHANGED <<readonly, cache, ncalls, conn, threads, registry, urlcache>>

OutOfBandRecords == Countries \cup Subjects

PersistOutOfBand ==
    \E value \in OutOfBandRecords, check \in BOOLEAN : Persist(value, check)
RemoveCall ==
    \E tablename \in Tables :
        \E rowid \in DOMAIN store[tablename] : RemoveOutOfBand(tablename, rowid)

NextOutOfBand == PersistOutOfBand \/ GetCall \/ ContainsCall \/ RemoveCall

SpecOutOfBand == InitOutOfBand /\ [][NextOutOfBand]_vars

(***************************************************************************)
(* C11: cache monotonicity.  Once DB._contains has returned true for       *)
(* (table, column, key) on a DB instance, the answer stays true: no step,  *)
(* be it a persist, a get, another existence check or the removal of the   *)
(* row behind the instance's back, takes the true answer away, and a later *)
(* call with the same arguments returns true.                              *)
(***************************************************************************)
ContainsKey(type_, pkvalue) ==
    <<_table_name[type_], _primary_key_name(type_), pkvalue>>

C11_CacheMonotone ==
    [][\A key \in DOMAIN cache :
          cache[key] =>
              /\ key \in DOMAIN cache' /\ cache'[key]
              /\ (/\ ncalls' = ncalls + 1
                  /\ last'.op = "contains"
                  /\ ContainsKey(last'.arg.type, last'.arg.key) = key)
                 => last'.ret = PyBool(TRUE)]_vars

\* the check has answered true for a key whose row is gone from the table
C11_Witness ==
    /\ last.op = "contains"
    /\ last.ret = PyBool(TRUE)
    /\ last.arg.key.v \notin DOMAIN store[_table_name[last.arg.type]]

(***************************************************************************)
(* C13: on an instance constructed with readonly=True, persist raises for  *)
(* every record before it issues an existence query, a nested persist or a *)
(* write statement, and leaves the store and the memo of the existence     *)
(* check as they were.                                                     *)
(***************************************************************************)
C13_ReadonlyRejects ==
    [][(/\ ncalls' = ncalls + 1
        /\ last'.op = "persist"
        /\ readonly)
       => (/\ last'.exc = "ValueError"
           /\ last'.stmts = <<>>
           /\ last'.calls = <<>>
           /\ store' = store
           /\ cache' = cache)]_vars

\* a read-only instance, whose memo holds an answer, has rejected a record
\* that nests records
C13_Witness ==
    /\ readonly
    /\ last.op = "persist"
    /\ last.exc = "ValueError"
    /\ NestedFields(last.arg) # {}
    /\ cache # <<>>

(***************************************************************************)
(* C14: get(type, key) for a key that has no row in the type's table       *)
(* returns None without raising, for every record type and also on an      *)
(* empty table, and leaves the store as it was.                            *)
(***************************************************************************)
C14_GetNotFound ==
    [][(/\ ncalls' = ncalls + 1
        /\ last'.op = "get"
        /\ last'.arg.key.v \notin DOMAIN store[_table_name[last'.arg.type]])
       => (/\ last'.exc = NoException
           /\ last'.ret = None
           /\ store' = store)]_vars

(***************************************************************************)
(* C16: when the store rejects the statement persist issues for the        *)
(* top-level record, the store's error is the outcome of the call, the     *)
(* statement was issued once, and the rows the call had inserted for the   *)
(* record's nested records are still in the store.                         *)
(***************************************************************************)
StoreErrors == {"IntegrityError", "OperationalError"}
WriteOps == {"INSERT", "UPDATE"}

TopLevelRejected ==
    /\ last.op = "persist"
    /\ last.stmts # <<>>
    /\ last.stmts[Len(last.stmts)].op \in WriteOps
    /\ last.stmts[Len(last.stmts)].table = TableOf(last.arg)
    /\ ~last.stmts[Len(last.stmts)].ok

C16_RejectionSurfacesNoRollback ==
    TopLevelRejected
    => /\ last.exc \in StoreErrors
       /\ Cardinality({i \in DOMAIN last.stmts :
                          /\ last.stmts[i].op \in WriteOps
                          /\ last.stmts[i].table = TableOf(last.arg)}) = 1
       /\ \A i \in DOMAIN last.stmts :
             (last.stmts[i].op = "INSERT" /\ last.stmts[i].ok)
             => last.stmts[i].key.v \in DOMAIN store[last.stmts[i].table]

\* the store has rejected the top-level statement of a call that had inserted
\* a row for a nested record
C16_Witness ==
    /\ TopLevelRejected
    /\ \E i \in DOMAIN last.stmts :
          last.stmts[i].op = "INSERT" /\ last.stmts[i].ok

(***************************************************************************)
(* C17: a persist call issues one write statement (INSERT or UPDATE) for   *)
(* its own record and one for each record nested in it, so that a record   *)
(* tree of n records makes n write statements.  (Calls in which the store  *)
(* rejects a statement are left aside.)                                    *)
(***************************************************************************)
RECURSIVE TreeSize(_)
RECURSIVE TreeSizeOver(_, _)

\* the number of records in the tree of value
TreeSize(value) == 1 + TreeSizeOver(value, _fields[value.type])

TreeSizeOver(value, fields) ==
    IF fields = <<>> THEN 0
    ELSE (IF isinstance_tuple(value.val[Head(fields)])
          THEN TreeSize(value.val[Head(fields)]) ELSE 0)
         + TreeSizeOver(value, Tail(fields))

WriteStatements(stmts) == {i \in DOMAIN stmts : stmts[i].op \in WriteOps}

C17_OneWritePerRecord ==
    [][(PersistStep /\ last'.exc \notin StoreErrors)
       => Cardinality(WriteStatements(last'.stmts)) = TreeSize(last'.arg)]_vars

(***************************************************************************)
(* C18: write ordering.  Nested records are persisted one after the other, *)
(* depth-first, before the statement of the row that refers to them: every *)
(* foreign-key column the engine has written holds the key of a row that   *)
(* exists, and a row inserted in the same call was inserted by an earlier  *)
(* statement than the one that refers to it.                               *)
(***************************************************************************)
\* the fields of a type whose declared type is a record type
ReferenceFields(type_) ==
    {f \in Range(_fields[type_]) : _field_types[type_][f] \in Types}

ReferencedTable(type_, f) == _table_name[_field_types[type_][f]]

StoredReferencesExist ==
    \A type_ \in Types :
        \A r \in DOMAIN store[_table_name[type_]] :
            \A f \in ReferenceFields(type_) :
                LET ref == store[_table_name[type_]][r][id_column[f]]
                IN  ref.k = "int" /\ ref.v \in DOMAIN store[ReferencedTable(type_, f)]

ReferencesWrittenInOrder ==
    \A i \in WriteStatements(last.stmts) :
        LET stmt == last.stmts[i]
            type_ == TypeOfTable(stmt.table)
        IN  \A f \in ReferenceFields(type_) :
                \A j \in DOMAIN stmt.columns :
                    stmt.columns[j] = id_column[f]
                    => /\ stmt.params[j].k = "int"
                       /\ stmt.params[j].v \in DOMAIN store[ReferencedTable(type_, f)]
                       /\ \A k \in DOMAIN last.stmts :
                             (/\ last.stmts[k].op = "INSERT"
                              /\ last.stmts[k].ok
                              /\ last.stmts[k].table = ReferencedTable(type_, f)
                              /\ last.stmts[k].key = stmt.params[j])
                             => k < i

C18_WriteOrdering == StoredReferencesExist /\ ReferencesWrittenInOrder

\* a dissertation has been persisted whose row refers to a subject and to a
\* university inserted in the same call, the university to a country
C18_Witness ==
    /\ last.op = "persist" /\ last.exc = NoException
    /\ last.arg.type = "Dissertation"
    /\ \A t \in {"country", "university", "mathematics_subject_classification",
                  "dissertation"} :
          \E i \in DOMAIN last.stmts :
              /\ last.stmts[i].op = "INSERT"
              /\ last.stmts[i].ok
              /\ last.stmts[i].table = t

(***************************************************************************)
(* Several threads of one process calling insert_or_update on one DB       *)
(* instance, each with a flat record.  A call is three steps, between      *)
(* which the other threads run: the entry (lines 163-185), the existence   *)
(* check (lines 187-194) and the statement (lines 203-220).  db.py takes   *)
(* no lock.  The connection is the one DB.__init__ opened or was given in  *)
(* the first thread: with check_same_thread (the default of                *)
(* sqlite3.connect) it raises ProgrammingError in every other thread, and  *)
(* a connection the caller opened with check_same_thread=False serves all  *)
(* threads.                                                                *)
(***************************************************************************)
Threads == 1 .. MaxThreads

\* the thread that constructed the DB instance
MainThread == 1

IdleThread ==
    [pc |-> "idle", value |-> None, check |-> TRUE, update_bound |-> FALSE,
     update |-> FALSE, issued |-> "none", exc |-> NoException, ret |-> None]

ThreadRecords == Countries \cup Subjects

InitThreads ==
    /\ readonly = FALSE
    /\ store = EmptyStore
    /\ cache = <<>>
    /\ last = [op |-> "init", arg |-> None, check |-> TRUE, exc |-> NoException,
               ret |-> None, stmts |-> <<>>, calls |-> <<>>]
    /\ ncalls = 0
    /\ conn \in [check_same_thread : BOOLEAN]
    /\ threads = [t \in Threads |-> IdleThread]
    /\ registry = SchemaRegistry
    /\ urlcache = EmptyURLCache

\* sqlite3: a connection used outside the thread that created it
conn_refuses(t) == conn.check_same_thread /\ t # MainThread

ThreadDone(t, exc, ret, issued) ==
    [threads EXCEPT ![t].pc = "done", ![t].exc = exc, ![t].ret = ret,
                    ![t].issued = issued]

\* lines 163-185 of a call db.insert_or_update(value, check_if_pk_not_null)
ThreadCall(t, value, check) ==
    /\ threads[t].pc = "idle"
    /\ threads' = IF self_readonly(readonly)
                  THEN ThreadDone(t, "ValueError", None, "none")
                  ELSE [threads EXCEPT ![t].pc = "check", ![t].value = value,
                                       ![t].check = check]
    /\ UNCHANGED <<readonly, store, cache, last, ncalls, conn, registry, urlcache>>

\* lines 187-194: update = self._contains(...), or update = False, or nothing
ThreadCheck(t) ==
    /\ threads[t].pc = "check"
    /\ LET value == threads[t].value
           pkvalue == PkValue(value)
           checked == pkvalue # None /\ threads[t].check
           r == _contains(Frame, TableOf(value), PkName(value), pkvalue)
           hit == ContainsKey(value.type, pkvalue) \in DOMAIN cache
       IN  IF checked /\ ~hit /\ conn_refuses(t)
           THEN /\ threads' = ThreadDone(t, "ProgrammingError", None, "none")
                /\ UNCHANGED cache
           ELSE /\ threads' = [threads EXCEPT
                                 ![t].pc = "execute",
                                 ![t].update_bound = checked \/ pkvalue # None,
                                 ![t].update = IF checked THEN r.ret ELSE FALSE]
                /\ cache' = IF checked THEN r.cache ELSE cache
    /\ UNCHANGED <<readonly, store, last, ncalls, conn, registry, urlcache>>

\* lines 203-220: the UPDATE or the INSERT of a record without nested records
ThreadExecute(t) ==
    /\ threads[t].pc = "execute"
    /\ LET value == threads[t].value
           pkname == PkName(value)
           pkvalue == PkValue(value)
           scalar_columns == SelectSeq(_fields[value.type], LAMBDA c : c # pkname)
           with_pk == ~threads[t].check /\ pkvalue # None
           insert_columns == IF with_pk THEN Append(scalar_columns, pkname)
                             ELSE scalar_columns
           insert_values == [i \in DOMAIN insert_columns |->
                                value.val[insert_columns[i]]]
           u == sql_update(store, TableOf(value), insert_columns,
                           Append(insert_values, pkvalue), pkname)
           r == sql_insert(store, TableOf(value), insert_columns, insert_values)
       IN  IF ~threads[t].update_bound
           THEN /\ threads' = ThreadDone(t, "UnboundLocalError", None, "none")
                /\ UNCHANGED store
           ELSE IF conn_refuses(t)
           THEN /\ threads' = ThreadDone(t, "ProgrammingError", None, "none")
                /\ UNCHANGED store
           ELSE IF threads[t].update
           THEN /\ threads' = ThreadDone(t, u.exc,
                                  IF u.exc = NoException
                                  THEN returned_key(TRUE, pkvalue, 0) ELSE None,
                                  "UPDATE")
                /\ store' = u.store
           ELSE /\ threads' = ThreadDone(t, r.exc,
                                  IF r.exc = NoException
                                  THEN returned_key(FALSE, pkvalue, r.lastrowid)
                                  ELSE None,
                                  "INSERT")
                /\ store' = r.store
    /\ UNCHANGED <<readonly, cache, last, ncalls, conn, registry, urlcache>>

ThreadCallStep ==
    \E t \in Threads, value \in ThreadRecords, check \in BOOLEAN :
        ThreadCall(t, value, check)
ThreadCheckStep == \E t \in Threads : ThreadCheck(t)
ThreadExecuteStep == \E t \in Threads : ThreadExecute(t)

NextThreads == ThreadCallStep \/ ThreadCheckStep \/ ThreadExecuteStep

SpecThreads == InitThreads /\ [][NextThreads]_vars

(***************************************************************************)
(* C12: when several threads persist, on one DB instance, records with the *)
(* same primary key that has no row yet, the existence check and the       *)
(* insert are one critical section: no two such calls are between their    *)
(* check and their statement at the same time, and at most one of them     *)
(* issues an INSERT.                                                       *)
(***************************************************************************)
SameKeyCalls(t, u) ==
    /\ t # u
    /\ threads[t].pc # "idle" /\ threads[u].pc # "idle"
    /\ threads[t].value # None /\ threads[u].value # None
    /\ threads[t].value.type = threads[u].value.type
    /\ PkValue(threads[t].value) # None
    /\ PkValue(threads[t].value) = PkValue(threads[u].value)
    /\ threads[t].check /\ threads[u].check

C12_CheckAndInsertExclusive ==
    \A t, u \in Threads :
        SameKeyCalls(t, u)
        => /\ ~(threads[t].pc = "execute" /\ threads[u].pc = "execute")
           /\ ~(threads[t].issued = "INSERT" /\ threads[u].issued = "INSERT")

(***************************************************************************)
(* The metadata registry while it is filled: the decorators                *)
(* register_pk_name, register_fk_names and register_alt_pk_names applied   *)
(* to record types, with names that are fields of the type or not, and     *)
(* the accessor _foreign_key_names read in between.  The registries start  *)
(* empty, as lines 13-16 of db.py create them.                             *)
(***************************************************************************)
EmptyRegistry ==
    [PK_NAMES |-> <<>>, FK_NAMES |-> <<>>, ALT_PK_NAMES |-> <<>>,
     foreign_key_names_cache |-> <<>>]

\* a variant of register_pk_name without the test of line 52
register_pk_name_unchecked(reg, type_, pkname) ==
    [exc |-> NoException,
     reg |-> [reg EXCEPT !.PK_NAMES = (type_ :> pkname) @@ @]]

\* lines 50-57
register_pk_name(reg, type_, pkname) ==
    IF pkname \notin Range(_fields[type_])
    THEN [exc |-> "NameError", reg |-> reg]
    ELSE [exc |-> NoException,
          reg |-> [reg EXCEPT !.PK_NAMES = (type_ :> pkname) @@ @]]

\* lines 60-69
register_fk_names(reg, type_, fknames) ==
    LET missing == {fk \in fknames : fk \notin Range(_fields[type_])}
    IN  IF missing # {}
        THEN [exc |-> "NameError", reg |-> reg]
        ELSE [exc |-> NoException,
              reg |-> [reg EXCEPT !.FK_NAMES =
                          (type_ :> {n \o "_id" : n \in fknames}) @@ @]]

\* lines 72-83
register_alt_pk_names(reg, type_, names_) ==
    LET missing == {fk \in names_ : fk \notin Range(_fields[type_])}
        types == _field_types[type_]
        names == {IF types[name] \in Types THEN name \o "_id" ELSE name :
                     name \in names_}
    IN  IF missing # {}
        THEN [exc |-> "NameError", reg |-> reg]
        ELSE [exc |-> NoException,
              reg |-> [reg EXCEPT !.ALT_PK_NAMES = (type_ :> names) @@ @]]

\* lines 119-124 under lru_cache(None), on the registry as it is at the call:
\* a value returned is memoized, an exception is not
foreign_key_names_in(reg, type_) ==
    IF type_ \in DOMAIN reg.foreign_key_names_cache
    THEN [exc |-> NoException, ret |-> reg.foreign_key_names_cache[type_],
          reg |-> reg]
    ELSE IF type_ \in DOMAIN reg.FK_NAMES
    THEN [exc |-> NoException, ret |-> reg.FK_NAMES[type_],
          reg |-> [reg EXCEPT !.foreign_key_names_cache =
                      (type_ :> reg.FK_NAMES[type_]) @@ @]]
    ELSE [exc |-> "AttributeError", ret |-> {}, reg |-> reg]

RegistryTypes == {"Country", "University", "AdvisorRelationship"}
NoSuchField == "no_such_field"
CandidateNames(type_) == Range(_fields[type_]) \cup {NoSuchField}
CandidateNameSets(type_) ==
    {names \in SUBSET CandidateNames(type_) : Cardinality(names) <= 2}

InitRegistry ==
    /\ readonly = FALSE
    /\ store = EmptyStore
    /\ cache = <<>>
    /\ last = [op |-> "init", arg |-> None, check |-> TRUE, exc |-> NoException,
               ret |-> None, stmts |-> <<>>, calls |-> <<>>]
    /\ ncalls = 0
    /\ conn = [check_same_thread |-> TRUE]
    /\ threads = <<>>
    /\ registry = EmptyRegistry
    /\ urlcache = EmptyURLCache

Registered(op, type_, names, r) ==
    /\ ncalls < MaxCalls
    /\ registry' = r.reg
    /\ last' = [op |-> op, arg |-> [type |-> type_, names |-> names],
                check |-> TRUE, exc |-> r.exc, ret |-> None,
                stmts |-> <<>>, calls |-> <<>>]
    /\ ncalls' = ncalls + 1
    /\ UNCHANGED <<readonly, store, cache, conn, threads, urlcache>>

\* @register_pk_name(pkname) on type_
RegisterPkName ==
    \E type_ \in RegistryTypes : \E pkname \in CandidateNames(type_) :
        Registered("register_pk_name", type_, {pkname},
                   register_pk_name(registry, type_, pkname))

\* @register_fk_names(*fknames) on type_
RegisterFkNames ==
    \E type_ \in RegistryTypes : \E fknames \in CandidateNameSets(type_) :
        Registered("register_fk_names", type_, fknames,
                   register_fk_names(registry, type_, fknames))

\* @register_alt_pk_names(*names) on type_
RegisterAltPkNames ==
    \E type_ \in RegistryTypes : \E names \in CandidateNameSets(type_) :
        Registered("register_alt_pk_names", type_, names,
                   register_alt_pk_names(registry, type_, names))

\* _foreign_key_names(type_)
ForeignKeyNamesCall ==
    \E type_ \in RegistryTypes :
        LET r == foreign_key_names_in(registry, type_)
        IN  /\ ncalls < MaxCalls
            /\ registry' = r.reg
            /\ last' = [op |-> "foreign_key_names", arg |-> [type |-> type_],
                        check |-> TRUE, exc |-> r.exc, ret |-> r.ret,
                        stmts |-> <<>>, calls |-> <<>>]
            /\ ncalls' = ncalls + 1
            /\ UNCHANGED <<readonly, store, cache, conn, threads, urlcache>>

NextRegistry ==
    RegisterPkName \/ RegisterFkNames \/ RegisterAltPkNames \/ ForeignKeyNamesCall

SpecRegistry == InitRegistry /\ [][NextRegistry]_vars

(***************************************************************************)
(* C15: registering a primary-key, foreign-key or alternate-key name that  *)
(* is not a field of the record type raises, and leaves the registry       *)
(* concerned as it was; registering names that are all fields of the type  *)
(* succeeds and the registry then holds, for the type, one entry per name: *)
(* the name, or the name of its <field>_id column.                         *)
(***************************************************************************)
RegistryOf ==
    [register_pk_name |-> "PK_NAMES", register_fk_names |-> "FK_NAMES",
     register_alt_pk_names |-> "ALT_PK_NAMES"]

\* the names an entry of a registry holds
EntryNames(which, entry) == IF which = "PK_NAMES" THEN {entry} ELSE entry

C15_RegistrationChecksFields ==
    [][(ncalls' = ncalls + 1 /\ last'.op \in DOMAIN RegistryOf)
       => LET which == RegistryOf[last'.op]
              type_ == last'.arg.type
              names == last'.arg.names
          IN  IF names \subseteq Range(_fields[type_])
              THEN /\ last'.exc = NoException
                   /\ type_ \in DOMAIN registry'[which]
                   /\ LET held == EntryNames(which, registry'[which][type_])
                      IN  /\ \A n \in names : n \in held \/ (n \o "_id") \in held
                          /\ Cardinality(held) = Cardinality(names)
              ELSE /\ last'.exc = "NameError"
                   /\ registry'[which] = registry[which]]_vars

\* a registration with a name that is no field has failed on a type that had
\* an entry in that registry, and the entry is still there
C15_Witness ==
    /\ last.op \in DOMAIN RegistryOf
    /\ last.exc = "NameError"
    /\ last.arg.type \in DOMAIN registry[RegistryOf[last.op]]

(***************************************************************************)
(* C19: for a record type without a foreign-key registration, the          *)
(* foreign-key set get works with (_foreign_key_names) is the set of the   *)
(* columns <field>_id of the fields whose declared type is a record type.  *)
(***************************************************************************)
C19_DefaultForeignKeys ==
    [][(/\ ncalls' = ncalls + 1
        /\ last'.op = "foreign_key_names"
        /\ last'.arg.type \notin DOMAIN registry.FK_NAMES)
       => (/\ last'.exc = NoException
           /\ last'.ret = {f \o "_id" : f \in ReferenceFields(last'.arg.type)})]_vars

(***************************************************************************)
(* scrape.py: URLCache, a directory of files used as a cache of fetched    *)
(* pages, and the wrapper URLCache.__call__ puts around a fetch function.  *)
(* A URL is its host, the segments of its path and its query, a sequence   *)
(* of name=value parameters.  A path of the file system is the sequence of *)
(* its components below the cache directory; a file has a content and a    *)
(* modification time, a directory a modification time.                     *)
(***************************************************************************)
\* self.ttl, in ticks of the model's clock
TTL == 2

Param(name, value) == [name |-> name, value |-> value]
URL(netloc, path, query) == [netloc |-> netloc, path |-> path, query |-> query]

\* the parameter names, in the order of Python's string comparison
ParamNames == <<"a", "b", "x">>

RECURSIVE Concat(_)
\* the concatenation of a sequence of sequences
Concat(seqs) == IF seqs = <<>> THEN <<>> ELSE Head(seqs) \o Concat(Tail(seqs))

\* parse_qsl(item.query): the parameters in their order, without those whose
\* value is blank
parse_qsl(query) == SelectSeq(query, LAMBDA q : q.value # "")

\* sorted(..., key=operator.itemgetter(0)): by name, stable
sorted_by_name(params) ==
    Concat([i \in DOMAIN ParamNames |->
               SelectSeq(params, LAMBDA q : q.name = ParamNames[i])])

RECURSIVE join(_)
\* '&'.join of '{}={}'.format(name, value)
join(params) ==
    IF params = <<>> THEN ""
    ELSE LET first == Head(params).name \o "=" \o Head(params).value
         IN  IF Len(params) = 1 THEN first
             ELSE first \o "&" \o join(Tail(params))

\* lines 25-44; pathlib drops an empty component
_key_path(item) ==
    LET dir_ == <<item.netloc>> \o item.path
        name == IF item.query # <<>>
                THEN join(sorted_by_name(parse_qsl(item.query)))
                ELSE "?"
    IN  IF name = "" THEN dir_ ELSE Append(dir_, name)

parent(path) == SubSeq(path, 1, Len(path) - 1)
is_file(fs, path) == path \in DOMAIN fs.files
is_dir(fs, path) == path \in DOMAIN fs.dirs
path_exists(fs, path) == is_file(fs, path) \/ is_dir(fs, path)
st_mtime(fs, path) ==
    IF is_file(fs, path) THEN fs.files[path].mtime ELSE fs.dirs[path]

\* some proper ancestor of the path is a regular file
under_a_file(fs, path) ==
    \E i \in 0 .. Len(path) - 1 : is_file(fs, SubSeq(path, 1, i))

\* lines 46-53, with self.ttl set
_contains_path(fs, path) ==
    path_exists(fs, path) /\ st_mtime(fs, path) > fs.now - TTL

\* lines 84-91: URLCache.get(key), default None
cache_get(fs, key) ==
    LET path == _key_path(key)
    IN  IF _contains_path(fs, path)
        THEN IF is_dir(fs, path)
             THEN [exc |-> "IsADirectoryError", ret |-> None]
             ELSE [exc |-> NoException, ret |-> fs.files[path].content]
        ELSE [exc |-> NoException, ret |-> None]

\* path.mkdir(parents=True): the path and its missing ancestors
mkdir_parents(fs, path) ==
    LET made == {SubSeq(path, 1, i) : i \in 0 .. Len(path)} \ DOMAIN fs.dirs
        touched == {parent(d) : d \in made \ {<<>>}} \cap DOMAIN fs.dirs
    IN  IF under_a_file(fs, path) \/ is_file(fs, path)
        THEN [exc |-> "NotADirectoryError", fs |-> fs]
        ELSE [exc |-> NoException,
              fs |-> [fs EXCEPT !.dirs =
                        [d \in DOMAIN fs.dirs \cup made |->
                            IF d \in made \cup touched THEN fs.now
                            ELSE fs.dirs[d]]]]

\* open(str(path), 'wb') and f.write(value)
write_file(fs, path, value) ==
    IF is_dir(fs, path) THEN [exc |-> "IsADirectoryError", fs |-> fs]
    ELSE IF under_a_file(fs, path) THEN [exc |-> "NotADirectoryError", fs |-> fs]
    ELSE [exc |-> NoException,
          fs |-> [fs EXCEPT
                    !.files = (path :> [content |-> value, mtime |-> fs.now]) @@ @,
                    !.dirs = IF is_file(fs, path) THEN @
                             ELSE [@ EXCEPT ![parent(path)] = fs.now]]]

\* lines 67-73: URLCache.__setitem__(key, value)
cache_setitem(fs, key, value) ==
    LET path == _key_path(key)
        m == IF ~path_exists(fs, parent(path)) THEN mkdir_parents(fs, parent(path))
             ELSE [exc |-> NoException, fs |-> fs]
    IN  IF m.exc # NoException THEN m ELSE write_file(m.fs, path, value)

\* lines 94-102: get_(url) of the wrapper around the fetch function `get`,
\* whose outcome for the url is a content or an exception
get_(fs, url, outcome) ==
    LET result == cache_get(fs, url)
    IN  IF result.exc # NoException
        THEN [exc |-> result.exc, ret |-> None, fs |-> fs, fetched |-> 0]
        ELSE IF result.ret = None
        THEN IF outcome.exc # NoException
             THEN [exc |-> outcome.exc, ret |-> None, fs |-> fs, fetched |-> 1]
             ELSE LET w == cache_setitem(fs, url, outcome.ret)
                  IN  IF w.exc # NoException
                      THEN [exc |-> w.exc, ret |-> None, fs |-> w.fs, fetched |-> 1]
                      ELSE [exc |-> NoException, ret |-> outcome.ret, fs |-> w.fs,
                            fetched |-> 1]
        ELSE [exc |-> NoException, ret |-> result.ret, fs |-> fs, fetched |-> 0]

URLPaths == {<<"a">>, <<"a", "b=1">>}
URLQueries ==
    {<<>>,
     <<Param("b", "1")>>,
     <<Param("a", "1"), Param("b", "1")>>,
     <<Param("b", "1"), Param("a", "1")>>,
     <<Param("x", "")>>}
URLs == {URL("h", path, query) : path \in URLPaths, query \in URLQueries}

\* the bytes a response carries, told apart by a number
PyBytes(n) == [k |-> "bytes", v |-> n]
Contents == {PyBytes(1), PyBytes(2)}
FetchOutcomes ==
    {[exc |-> NoException, ret |-> c] : c \in Contents}
        \cup {[exc |-> "HTTPError", ret |-> None]}

InitFetch ==
    /\ readonly = FALSE
    /\ store = EmptyStore
    /\ cache = <<>>
    /\ last = [op |-> "init", arg |-> None, check |-> TRUE, exc |-> NoException,
               ret |-> None, stmts |-> <<>>, calls |-> <<>>]
    /\ ncalls = 0
    /\ conn = [check_same_thread |-> TRUE]
    /\ threads = <<>>
    /\ registry = SchemaRegistry
    /\ urlcache = EmptyURLCache

\* fetch_content(url), the wrapped fetch
FetchCall ==
    \E url \in URLs, outcome \in FetchOutcomes :
        LET r == get_(urlcache, url, outcome)
        IN  /\ ncalls < MaxCalls
            /\ urlcache' = r.fs
            /\ last' = [op |-> "fetch", arg |-> url, outcome |-> outcome,
                        exc |-> r.exc, ret |-> r.ret, fetched |-> r.fetched]
            /\ ncalls' = ncalls + 1
            /\ UNCHANGED <<readonly, store, cache, conn, threads, registry>>

\* time.time() moves on
Tick ==
    /\ urlcache.now < MaxTime
    /\ ncalls < MaxCalls
    /\ urlcache' = [urlcache EXCEPT !.now = @ + 1]
    /\ UNCHANGED <<readonly, store, cache, last, ncalls, conn, threads, registry>>

NextFetch == FetchCall \/ Tick

SpecFetch == InitFetch /\ [][NextFetch]_vars

FetchStep == last'.op = "fetch" /\ ncalls' = ncalls + 1

\* the urls of one host and path whose queries hold the same parameters,
\* each name once, in any order
SameParameters(u1, u2) ==
    /\ u1.netloc = u2.netloc /\ u1.path = u2.path
    /\ Len(u1.query) = Len(u2.query)
    /\ {u1.query[i] : i \in DOMAIN u1.query} = {u2.query[i] : i \in DOMAIN u2.query}
    /\ \A i, j \in DOMAIN u1.query : u1.query[i].name = u1.query[j].name => i = j

\* a non-expired entry exists for the url
HasEntry(fs, url) ==
    /\ is_file(fs, _key_path(url))
    /\ fs.files[_key_path(url)].mtime > fs.now - TTL

\* C20: a call of the wrapped fetch returns the cached bytes without a fetch
\* when a non-expired entry exists for the url; otherwise it fetches once,
\* and either the fetch raises, the call raises the same and no entry is
\* stored, or the call stores the result, returns it, and the urls with the
\* same host, path and parameters in another order are served by that entry.
C20_ReadThrough ==
    [][FetchStep =>
        LET url == last'.arg
            outcome == last'.outcome
        IN  IF HasEntry(urlcache, url)
            THEN /\ last'.exc = NoException
                 /\ last'.ret = urlcache.files[_key_path(url)].content
                 /\ last'.fetched = 0
                 /\ urlcache' = urlcache
            ELSE /\ last'.fetched = 1
                 /\ IF outcome.exc # NoException
                    THEN /\ last'.exc = outcome.exc
                         /\ urlcache'.files = urlcache.files
                    ELSE /\ last'.exc = NoException
                         /\ last'.ret = outcome.ret
                         /\ \A u \in URLs :
                                SameParameters(url, u) =>
                                    cache_get(urlcache', u) =
                                        [exc |-> NoException, ret |-> outcome.ret]]_vars

(***************************************************************************)
(* db.py: the registry of insert modes while it is filled, the decorator   *)
(* register_insert_mode applied to record types, and the accessor          *)
(* _insert_mode read in between.  A mode is the set of its flags.          *)
(***************************************************************************)
\* INSERT_MODES as line 13 creates it, and the memo of _insert_mode
EmptyInsertModes == [INSERT_MODES |-> <<>>, insert_mode_cache |-> <<>>]

\* lines 42-47
register_insert_mode(reg, type_, mode) ==
    [reg EXCEPT !.INSERT_MODES = (type_ :> mode) @@ @]

\* a value of the enumeration InsertMode (lines 23-39), by its flags
InsertMode(flags) == [k |-> "InsertMode", v |-> flags]

\* line 94
DefaultInsertMode ==
    InsertMode({InsertIfNewPKElseUpdate, InsertIfNewAltPKElseUpdate, InsertIfNoPK})

\* lines 90-96 under lru_cache(None): the return statement is inside the
\* `if mode is None` block, a call that finds a mode runs off the end of the
\* function; what a call returns is memoized, None included
insert_mode_in(reg, type_) ==
    IF type_ \in DOMAIN reg.insert_mode_cache
    THEN [ret |-> reg.insert_mode_cache[type_], reg |-> reg]
    ELSE LET ret == IF type_ \notin DOMAIN reg.INSERT_MODES
                    THEN DefaultInsertMode
                    ELSE None
         IN  [ret |-> ret,
              reg |-> [reg EXCEPT !.insert_mode_cache = (type_ :> ret) @@ @]]

\* the modes schema.py registers, and a union of two flags
CandidateModes ==
    {InsertMode(flags) :
        flags \in {{InsertIfNewAltPKElseIgnore}, {InsertIfNewPKElseIgnore},
                   {InsertIfNoPK}, {InsertIfNewAltPKElseUpdate},
                   {InsertIfNewPKElseUpdate, InsertIfNoPK}}}

InitInsertMode ==
    /\ readonly = FALSE
    /\ store = EmptyStore
    /\ cache = <<>>
    /\ last = [op |-> "init", arg |-> None, check |-> TRUE, exc |-> NoException,
               ret |-> None, stmts |-> <<>>, calls |-> <<>>]
    /\ ncalls = 0
    /\ conn = [check_same_thread |-> TRUE]
    /\ threads = <<>>
    /\ registry = EmptyInsertModes
    /\ urlcache = EmptyURLCache

\* @register_insert_mode(mode) on type_
RegisterInsertMode ==
    \E type_ \in Types, mode \in CandidateModes :
        /\ ncalls < MaxCalls
        /\ registry' = register_insert_mode(registry, type_, mode)
        /\ last' = [op |-> "register_insert_mode",
                    arg |-> [type |-> type_, mode |-> mode],
                    exc |-> NoException, ret |-> None]
        /\ ncalls' = ncalls + 1
        /\ UNCHANGED <<readonly, store, cache, conn, threads, urlcache>>

\* insert_mode(value) for a value of type_, that is _insert_mode(type_)
InsertModeCall ==
    \E type_ \in Types :
        LET r == insert_mode_in(registry, type_)
        IN  /\ ncalls < MaxCalls
            /\ registry' = r.reg
            /\ last' = [op |-> "insert_mode", arg |-> [type |-> type_],
                        exc |-> NoException, ret |-> r.ret]
            /\ ncalls' = ncalls + 1
            /\ UNCHANGED <<readonly, store, cache, conn, threads, urlcache>>

NextInsertMode == RegisterInsertMode \/ InsertModeCall

SpecInsertMode == InitInsertMode /\ [][NextInsertMode]_vars

\* C21: a call of the insert-mode accessor returns the mode registered for
\* the type when one is registered, the union InsertIfNewPKElseUpdate |
\* InsertIfNewAltPKElseUpdate | InsertIfNoPK when none is, and never None.
C21_InsertModeAccessor ==
    [][(ncalls' = ncalls + 1 /\ last'.op = "insert_mode")
       => LET type_ == last'.arg.type
          IN  /\ last'.ret # None
              /\ last'.ret = IF type_ \in DOMAIN registry.INSERT_MODES
                             THEN registry.INSERT_MODES[type_]
                             ELSE DefaultInsertMode]_vars
====
